---- MODULE Spec2Model ----
(***************************************************************************)
(* Model of the photo-preset service: the two style matchers               *)
(* (preset_generator.match_prompt_to_preset, main.generate_xmp_preset),    *)
(* the two XMP encoders (preset_generator.generate_xmp_content,            *)
(* main.create_xmp_file), main.slugify and the generate_preset /           *)
(* delete_file request handlers of backend/main.py.                        *)
(*                                                                         *)
(* Text is a sequence of one-character strings; a fixed literal of the     *)
(* code that holds no markup character (a namespace URI, "Normal", a uuid  *)
(* prefix) is kept as one element.  Numbers are exact rationals held as    *)
(* integers in units of 1/Unit, so that a mean over one to five templates  *)
(* of one-decimal values is represented exactly; the rounding error of     *)
(* binary floating point is not represented.                               *)
(***************************************************************************)
EXTENDS Integers, Sequences, FiniteSets, TLC

\* ------------------------------------------------------------------ bounds
MaxPhrases == 2
MaxRequests == 2

\* ------------------------------------------------------------- characters
UpperLetters == <<"A","B","C","D","E","F","G","H","I","J","K","L","M","N","O","P","Q","R","S","T","U","V","W","X","Y","Z">>
LowerLetters == <<"a","b","c","d","e","f","g","h","i","j","k","l","m","n","o","p","q","r","s","t","u","v","w","x","y","z">>
Digits == <<"0","1","2","3","4","5","6","7","8","9">>

Range(s) == {s[i] : i \in 1..Len(s)}

\* str.lower() on one character
LowerOf == [c \in Range(UpperLetters) |->
               LowerLetters[CHOOSE i \in 1..Len(UpperLetters) : UpperLetters[i] = c]]

LowerChar(c) == IF c \in DOMAIN LowerOf THEN LowerOf[c] ELSE c

\* str.lower()
lower(text) == [i \in 1..Len(text) |-> LowerChar(text[i])]

\* the Python test `key in text` on strings
Contains(text, key) ==
    \E i \in 0..(Len(text) - Len(key)) : \A j \in 1..Len(key) : text[i + j] = key[j]

\* ------------------------------------------------------------------ numbers
\* one unit is 1/Unit; 60 units per tenth keeps sum/match_count exact for 1..5
Unit == 10 * 3 * 4 * 5
UnitsPerTenth == Unit \div 10
UnitsPerHundredth == Unit \div 100

Abs(n) == IF n < 0 THEN -n ELSE n

\* ------------------------------------------------------- preset_generator.py
BasicKeys == {"Exposure", "Contrast", "Highlights", "Shadows", "Whites", "Blacks",
              "Clarity", "Vibrance", "Saturation", "Temperature", "Tint"}

\* insertion order of the matched_settings dict
BasicKeyOrder == <<"Exposure", "Contrast", "Highlights", "Shadows", "Whites", "Blacks",
                   "Clarity", "Vibrance", "Saturation", "Temperature", "Tint">>

\* insertion order of the PRESET_TEMPLATES dict
TemplateOrder == <<"moody", "vintage", "dramatic", "soft", "cinematic">>

\* the dict keys as text
StyleKey ==
    [moody     |-> <<"m","o","o","d","y">>,
     vintage   |-> <<"v","i","n","t","a","g","e">>,
     dramatic  |-> <<"d","r","a","m","a","t","i","c">>,
     soft      |-> <<"s","o","f","t">>,
     cinematic |-> <<"c","i","n","e","m","a","t","i","c">>]

\* template values in tenths (-0.5 is -5)
PRESET_TEMPLATES ==
    [moody |->
        [Exposure |-> -5, Contrast |-> 3, Highlights |-> -4, Shadows |-> -2,
         Blacks |-> -3, Clarity |-> 2, Vibrance |-> -1, Temperature |-> -2,
         Tint |-> 0, Saturation |-> -1, Whites |-> 0],
     vintage |->
        [Exposure |-> 2, Contrast |-> 4, Highlights |-> -3, Shadows |-> 2,
         Clarity |-> 3, Vibrance |-> -2, Saturation |-> -1, Temperature |-> 3,
         Tint |-> 1, Whites |-> 1, Blacks |-> 0],
     dramatic |->
        [Exposure |-> 1, Contrast |-> 6, Highlights |-> -4, Shadows |-> -4,
         Whites |-> 2, Blacks |-> -2, Clarity |-> 4, Vibrance |-> 2,
         Temperature |-> 0, Tint |-> 0, Saturation |-> 1],
     soft |->
        [Exposure |-> 3, Contrast |-> -2, Highlights |-> -3, Shadows |-> 3,
         Clarity |-> -2, Vibrance |-> 1, Temperature |-> 1, Tint |-> 0,
         Saturation |-> 0, Whites |-> 0, Blacks |-> 0],
     cinematic |->
        [Exposure |-> 1, Contrast |-> 4, Highlights |-> -3, Shadows |-> 2,
         Clarity |-> 2, Vibrance |-> 1, Temperature |-> -1, Tint |-> 0,
         Saturation |-> 0, Whites |-> 1, Blacks |-> -1]]

\* the initial matched_settings dict: every key 0.0
ZeroSettings == [key \in BasicKeys |-> 0]

\* faulty variant: the loop stops at the first matching template (a stray break)
RECURSIVE MatchLoop_Break(_, _, _)
MatchLoop_Break(prompt, i, acc) ==
    IF i > Len(TemplateOrder) THEN acc
    ELSE LET style == TemplateOrder[i] IN
         IF Contains(prompt, StyleKey[style])
         THEN [match_count |-> acc.match_count + 1,
               matched_settings |->
                  [key \in BasicKeys |->
                     acc.matched_settings[key]
                       + PRESET_TEMPLATES[style][key] * UnitsPerTenth]]
         ELSE MatchLoop_Break(prompt, i + 1, acc)

\* the for-loop over PRESET_TEMPLATES.items(), from the i-th item on
RECURSIVE MatchLoop(_, _, _)
MatchLoop(prompt, i, acc) ==
    IF i > Len(TemplateOrder) THEN acc
    ELSE LET style == TemplateOrder[i] IN
         IF Contains(prompt, StyleKey[style])
         THEN MatchLoop(prompt, i + 1,
                 [match_count |-> acc.match_count + 1,
                  matched_settings |->
                     [key \in BasicKeys |->
                        acc.matched_settings[key]
                          + PRESET_TEMPLATES[style][key] * UnitsPerTenth]])
         ELSE MatchLoop(prompt, i + 1, acc)

\* faulty variant: the divisor is one too large
Average_OffByOne(acc) ==
    IF acc.match_count > 0
    THEN [key \in BasicKeys |-> acc.matched_settings[key] \div (acc.match_count + 1)]
    ELSE acc.matched_settings

\* the closing `if match_count > 0: ... /= match_count`
Average(acc) ==
    IF acc.match_count > 0
    THEN [key \in BasicKeys |-> acc.matched_settings[key] \div acc.match_count]
    ELSE acc.matched_settings

match_prompt_to_preset(prompt) ==
    Average(MatchLoop(lower(prompt), 1,
                      [match_count |-> 0, matched_settings |-> ZeroSettings]))


\* ---------------------------------------------------- decimal text of numbers
RECURSIVE NatToText(_)
NatToText(n) ==
    IF n < 10 THEN <<Digits[n + 1]>>
    ELSE NatToText(n \div 10) \o <<Digits[(n % 10) + 1]>>

DigitValue(c) == (CHOOSE i \in 1..Len(Digits) : Digits[i] = c) - 1

RECURSIVE DigitsToNat(_)
DigitsToNat(text) ==
    IF Len(text) = 0 THEN 0
    ELSE DigitsToNat(SubSeq(text, 1, Len(text) - 1)) * 10 + DigitValue(text[Len(text)])

RECURSIVE Pow10(_)
Pow10(n) == IF n = 0 THEN 1 ELSE 10 * Pow10(n - 1)

\* the reader's side of the round trip: float(text) for a plain decimal
\* "[-]ddd[.ddd]", in units
ParseFloat(text) ==
    LET neg == Len(text) > 0 /\ text[1] = "-"
        body == IF neg THEN Tail(text) ELSE text
        dot == IF \E i \in 1..Len(body) : body[i] = "."
               THEN CHOOSE i \in 1..Len(body) : body[i] = "."
               ELSE Len(body) + 1
        whole == DigitsToNat(SubSeq(body, 1, dot - 1))
        frac == SubSeq(body, dot + 1, Len(body))
        mag == whole * Unit + (DigitsToNat(frac) * Unit) \div Pow10(Len(frac))
    IN IF neg THEN -mag ELSE mag

\* a value lying exactly halfway between two hundredths: the decimal literal
\* has no exact binary form, so the side '.2f' rounds to depends on the
\* float's representation error
IsTie(v) == Abs(v) % UnitsPerHundredth = UnitsPerHundredth \div 2

\* f'{value:.2f}'; tie is 0 (round down in magnitude) or 1 (round up)
Format2f(v, tie) ==
    LET q == Abs(v) \div UnitsPerHundredth
        r == Abs(v) % UnitsPerHundredth
        h == IF 2 * r > UnitsPerHundredth THEN q + 1
             ELSE IF 2 * r < UnitsPerHundredth THEN q
             ELSE q + tie
    IN (IF v < 0 THEN <<"-">> ELSE <<>>)
         \o NatToText(h \div 100) \o <<".">>
         \o <<Digits[((h \div 10) % 10) + 1], Digits[(h % 10) + 1]>>

\* the rounding sides '.2f' can take over a settings dict
TieChoices(settings) ==
    LET tied == {key \in BasicKeys : IsTie(settings[key])} IN
    {[key \in BasicKeys |-> IF key \in up THEN 1 ELSE 0] : up \in SUBSET tied}

\* ------------------------------------------------------------- XML documents
\* A document is the sequence of its elements in document order; an element is
\* [tag, xmlns, attrs, text, parent]: tag <<prefix, local>>, xmlns the set of
\* <<prefix, uri>> declared on it, attrs the set of <<prefix, local, value>>
\* with value as written in the file, text its character data as written,
\* parent the index of its parent (0 for the root).
NS_X == "adobe:ns:meta/"
NS_RDF == "http://www.w3.org/1999/02/22-rdf-syntax-ns#"
NS_CRS == "http://ns.adobe.com/camera-raw-settings/1.0/"
XMPTK == <<"Adobe XMP Core 5.6-c140 79.160451, 2017/05/06-01:08:21">>

\* the f-string template of generate_xmp_content
generate_xmp_content(prompt, settings, tie) ==
    <<[tag |-> <<"x", "xmpmeta">>, xmlns |-> {<<"x", NS_X>>},
       attrs |-> {<<"x", "xmptk", XMPTK>>}, text |-> <<>>, parent |-> 0],
      [tag |-> <<"rdf", "RDF">>, xmlns |-> {<<"rdf", NS_RDF>>, <<"crs", NS_CRS>>},
       attrs |-> {}, text |-> <<>>, parent |-> 1],
      [tag |-> <<"rdf", "Description">>, xmlns |-> {},
       attrs |-> {<<"rdf", "about", <<>> >>}, text |-> <<>>, parent |-> 2],
      [tag |-> <<"dc", "description">>, xmlns |-> {},
       attrs |-> {}, text |-> prompt, parent |-> 3]>>
    \o [i \in 1..Len(BasicKeyOrder) |->
          [tag |-> <<"crs", BasicKeyOrder[i]>>, xmlns |-> {}, attrs |-> {},
           text |-> Format2f(settings[BasicKeyOrder[i]], tie[BasicKeyOrder[i]]),
           parent |-> 3]]


\* ------------------------------------------------------------------ main.py
\* Python numbers of the preset dict: an int n, or a float given in tenths
PyInt(n) == [isfloat |-> FALSE, units |-> n * Unit]
PyFloat(tenths) == [isfloat |-> TRUE, units |-> tenths * UnitsPerTenth]

\* str() of such a number: digits for an int, the shortest repr for a float
str(x) ==
    LET a == Abs(x.units)
        sign == IF x.units < 0 THEN <<"-">> ELSE <<>>
        h == (a % Unit) \div UnitsPerHundredth
    IN IF ~x.isfloat THEN sign \o NatToText(a \div Unit)
       ELSE sign \o NatToText(a \div Unit) \o <<".">>
              \o (IF h % 10 = 0 THEN <<Digits[(h \div 10) + 1]>>
                  ELSE <<Digits[(h \div 10) + 1], Digits[(h % 10) + 1]>>)

\* dict.update
Update(d, u) ==
    [k \in (DOMAIN d) \cup (DOMAIN u) |-> IF k \in DOMAIN u THEN u[k] ELSE d[k]]

Colors == {"Red", "Orange", "Yellow", "Green", "Aqua", "Blue", "Purple", "Magenta"}

\* the base preset dict
BasePreset ==
    [Basic |->
        [Exposure |-> PyFloat(0), Contrast |-> PyInt(0), Highlights |-> PyInt(0),
         Shadows |-> PyInt(0), Whites |-> PyInt(0), Blacks |-> PyInt(0),
         Clarity |-> PyInt(0), Vibrance |-> PyInt(0), Saturation |-> PyInt(0),
         Temperature |-> PyInt(0), Tint |-> PyInt(0)],
     ToneCurve |-> [Enabled |-> TRUE, Points |-> << <<0, 0>>, <<255, 255>> >>],
     HSL |-> [Hue |-> [c \in Colors |-> 0],
              Saturation |-> [c \in Colors |-> 0],
              Luminance |-> [c \in Colors |-> 0]],
     SplitToning |-> [Enabled |-> TRUE, HighlightHue |-> 0, HighlightSaturation |-> 0,
                      ShadowHue |-> 0, ShadowSaturation |-> 0, Balance |-> 0],
     Detail |-> [Sharpness |-> 0, LuminanceSmoothing |-> 0, ColorNoiseReduction |-> 0]]

\* the keywords tested by the if/elif chain, as text
XmpKeyword ==
    [cinematic |-> <<"c","i","n","e","m","a","t","i","c">>,
     vintage   |-> <<"v","i","n","t","a","g","e">>,
     dramatic  |-> <<"d","r","a","m","a","t","i","c">>,
     dreamy    |-> <<"d","r","e","a","m","y">>]

\* the three updates made by each branch of the chain
XmpStyle ==
    [cinematic |->
        [Basic |-> [Contrast |-> PyInt(15), Highlights |-> PyInt(-20), Shadows |-> PyInt(10),
                    Clarity |-> PyInt(10), Vibrance |-> PyInt(5), Temperature |-> PyInt(5)],
         Points |-> << <<0, 0>>, <<64, 60>>, <<192, 200>>, <<255, 255>> >>,
         SplitToning |-> [HighlightHue |-> 45, HighlightSaturation |-> 10,
                          ShadowHue |-> 215, ShadowSaturation |-> 15]],
     vintage |->
        [Basic |-> [Exposure |-> PyFloat(5), Contrast |-> PyInt(10), Highlights |-> PyInt(-15),
                    Shadows |-> PyInt(15), Clarity |-> PyInt(-5), Vibrance |-> PyInt(-10),
                    Saturation |-> PyInt(-15), Temperature |-> PyInt(10)],
         Points |-> << <<0, 0>>, <<85, 90>>, <<170, 160>>, <<255, 255>> >>,
         SplitToning |-> [HighlightHue |-> 40, HighlightSaturation |-> 20,
                          ShadowHue |-> 200, ShadowSaturation |-> 10]],
     dramatic |->
        [Basic |-> [Exposure |-> PyFloat(-5), Contrast |-> PyInt(25), Highlights |-> PyInt(-30),
                    Shadows |-> PyInt(20), Clarity |-> PyInt(15), Vibrance |-> PyInt(10),
                    Temperature |-> PyInt(-5)],
         Points |-> << <<0, 0>>, <<64, 50>>, <<192, 210>>, <<255, 255>> >>,
         SplitToning |-> [HighlightHue |-> 30, HighlightSaturation |-> 15,
                          ShadowHue |-> 210, ShadowSaturation |-> 20]],
     dreamy |->
        [Basic |-> [Exposure |-> PyFloat(5), Contrast |-> PyInt(-10), Highlights |-> PyInt(-20),
                    Shadows |-> PyInt(15), Clarity |-> PyInt(-10), Vibrance |-> PyInt(5),
                    Temperature |-> PyInt(5)],
         Points |-> << <<0, 0>>, <<85, 95>>, <<170, 165>>, <<255, 255>> >>,
         SplitToning |-> [HighlightHue |-> 45, HighlightSaturation |-> 15,
                          ShadowHue |-> 220, ShadowSaturation |-> 10]]]

\* one branch body: preset["Basic"].update, ToneCurve Points, SplitToning.update
ApplyStyle(preset, style) ==
    [preset EXCEPT
        !.Basic = Update(@, XmpStyle[style].Basic),
        !.ToneCurve.Points = XmpStyle[style].Points,
        !.SplitToning = Update(@, XmpStyle[style].SplitToning)]

\* faulty variant: the chain ends in the dreamy branch instead of falling through
generate_xmp_preset_DefaultDreamy(style_description) ==
    LET style_lower == lower(style_description) IN
    IF Contains(style_lower, XmpKeyword.cinematic) THEN ApplyStyle(BasePreset, "cinematic")
    ELSE IF Contains(style_lower, XmpKeyword.vintage) THEN ApplyStyle(BasePreset, "vintage")
    ELSE IF Contains(style_lower, XmpKeyword.dramatic) THEN ApplyStyle(BasePreset, "dramatic")
    ELSE ApplyStyle(BasePreset, "dreamy")

\* faulty variant: the vintage branch is tested before the cinematic branch
generate_xmp_preset_VintageFirst(style_description) ==
    LET style_lower == lower(style_description) IN
    IF Contains(style_lower, XmpKeyword.vintage) THEN ApplyStyle(BasePreset, "vintage")
    ELSE IF Contains(style_lower, XmpKeyword.cinematic) THEN ApplyStyle(BasePreset, "cinematic")
    ELSE IF Contains(style_lower, XmpKeyword.dramatic) THEN ApplyStyle(BasePreset, "dramatic")
    ELSE IF Contains(style_lower, XmpKeyword.dreamy) THEN ApplyStyle(BasePreset, "dreamy")
    ELSE BasePreset

generate_xmp_preset(style_description) ==
    LET style_lower == lower(style_description) IN
    IF Contains(style_lower, XmpKeyword.cinematic) THEN ApplyStyle(BasePreset, "cinematic")
    ELSE IF Contains(style_lower, XmpKeyword.vintage) THEN ApplyStyle(BasePreset, "vintage")
    ELSE IF Contains(style_lower, XmpKeyword.dramatic) THEN ApplyStyle(BasePreset, "dramatic")
    ELSE IF Contains(style_lower, XmpKeyword.dreamy) THEN ApplyStyle(BasePreset, "dreamy")
    ELSE BasePreset

\* the character class [a-z0-9]
SlugChars == Range(LowerLetters) \cup Range(Digits)
IsSlugChar(c) == c \in SlugChars

\* re.sub(r'[^a-z0-9]+', '-', text): out is the output for the text before i
RECURSIVE ReSubRuns(_, _, _)
ReSubRuns(text, i, out) ==
    IF i > Len(text) THEN out
    ELSE IF IsSlugChar(text[i]) THEN ReSubRuns(text, i + 1, Append(out, text[i]))
    ELSE IF i > 1 /\ ~IsSlugChar(text[i - 1]) THEN ReSubRuns(text, i + 1, out)
    ELSE ReSubRuns(text, i + 1, Append(out, "-"))

\* str.strip('-')
RECURSIVE LStrip(_)
LStrip(text) ==
    IF Len(text) > 0 /\ text[1] = "-" THEN LStrip(Tail(text)) ELSE text

RECURSIVE RStrip(_)
RStrip(text) ==
    IF Len(text) > 0 /\ text[Len(text)] = "-"
    THEN RStrip(SubSeq(text, 1, Len(text) - 1)) ELSE text

\* faulty variant: only leading hyphens are stripped
Strip_LeftOnly(text) == LStrip(text)

Strip(text) == RStrip(LStrip(text))

slugify(text) == Strip(ReSubRuns(lower(text), 1, <<>>))


\* xml.etree _escape_attrib followed by minidom's attribute writer: the value
\* as it stands in the written file
RECURSIVE EscapeAttrib(_)
EscapeAttrib(text) ==
    IF Len(text) = 0 THEN <<>>
    ELSE (CASE text[1] = "&" -> <<"&","a","m","p",";">>
            [] text[1] = "<" -> <<"&","l","t",";">>
            [] text[1] = ">" -> <<"&","g","t",";">>
            [] text[1] = "\"" -> <<"&","q","u","o","t",";">>
            [] OTHER -> <<text[1]>>)
         \o EscapeAttrib(Tail(text))

\* the document create_xmp_file writes; uuid is the text of its uuid.uuid4()
create_xmp_file(preset_data, xmp_filename, uuid) ==
    LET basic == preset_data.Basic
        Attr(prefix, local, value) == <<prefix, local, EscapeAttrib(value)>>
    IN
    <<[tag |-> <<"x", "xmpmeta">>, xmlns |-> {<<"x", NS_X>>},
       attrs |-> {Attr("x", "xmptk", XMPTK)}, text |-> <<>>, parent |-> 0],
      [tag |-> <<"rdf", "RDF">>, xmlns |-> {<<"rdf", NS_RDF>>, <<"crs", NS_CRS>>},
       attrs |-> {}, text |-> <<>>, parent |-> 1],
      [tag |-> <<"rdf", "Description">>, xmlns |-> {},
       attrs |->
         {Attr("rdf", "about", <<>>),
          Attr("crs", "PresetType", <<"Normal">>),
          Attr("crs", "Cluster", <<>>),
          Attr("crs", "UUID", uuid),
          Attr("crs", "SupportsAmount", <<"False">>),
          Attr("crs", "RequiresRGBTables", <<"False">>),
          Attr("crs", "Group", <<"User Presets">>),
          Attr("crs", "Name", <<"P","r","e","s","e","t","_">> \o xmp_filename),
          Attr("crs", "Version", <<"13.0">>),
          Attr("crs", "ProcessVersion", <<"11.0">>),
          Attr("crs", "Exposure2012", str(basic.Exposure)),
          Attr("crs", "Contrast2012", str(basic.Contrast)),
          Attr("crs", "Highlights2012", str(basic.Highlights)),
          Attr("crs", "Shadows2012", str(basic.Shadows)),
          Attr("crs", "Whites2012",
               str(IF "Whites" \in DOMAIN basic THEN basic.Whites ELSE PyInt(0))),
          Attr("crs", "Blacks2012",
               str(IF "Blacks" \in DOMAIN basic THEN basic.Blacks ELSE PyInt(0))),
          Attr("crs", "Clarity2012", str(basic.Clarity)),
          Attr("crs", "Vibrance", str(basic.Vibrance)),
          Attr("crs", "Saturation", str(basic.Saturation)),
          Attr("crs", "Temperature", str(basic.Temperature)),
          Attr("crs", "Tint", str(basic.Tint))},
       text |-> <<>>, parent |-> 2]>>

\* os.path.splitext(name)[0]
SplitextRoot(name) ==
    LET Last(c) == IF \E i \in 1..Len(name) : name[i] = c
                   THEN CHOOSE i \in 1..Len(name) :
                          name[i] = c /\ \A j \in (i + 1)..Len(name) : name[j] # c
                   ELSE 0
        sep == Last("/")
        dot == Last(".")
    IN IF dot > sep /\ \E i \in (sep + 1)..(dot - 1) : name[i] # "."
       THEN SubSeq(name, 1, dot - 1)
       ELSE name

\* f"{original_name}-preset-{preset_slug}.xmp"
XmpFilename(filename, style_description) ==
    SplitextRoot(filename) \o <<"-","p","r","e","s","e","t","-">>
      \o slugify(style_description) \o <<".","x","m","p">>

\* str(uuid.uuid4()): the n-th identifier drawn
UuidText(n) == <<"uuid-">> \o NatToText(n)

\* the outcomes of apply_preset_to_image: "ok", or the exception raised.
\* The Highlights/Shadows branch converts RGB to LAB, which the imaging
\* library may refuse; the Clarity branch names ImageFilter, which the module
\* does not import.
apply_preset_to_image(preset) ==
    LET basic == preset.Basic IN
    (IF basic.Highlights.units # 0 \/ basic.Shadows.units # 0
     THEN {"ValueError"} ELSE {})
    \cup {IF basic.Clarity.units # 0 THEN "NameError" ELSE "ok"}

\* f"{preset_id}_{file.filename}" and f"preview_{preset_id}.jpg"
UploadName(preset_id, filename) == preset_id \o <<"_">> \o filename
PreviewName(preset_id) ==
    <<"p","r","e","v","i","e","w","_">> \o preset_id \o <<".","j","p","g">>


\* ------------------------------------------------------------------- inputs
\* sample pieces of description text
Phrases ==
    {<<"c","i","n","e","m","a","t","i","c">>,
     <<"m","o","o","d","y">>,
     <<"v","i","n","t","a","g","e">>,
     <<"d","r","a","m","a","t","i","c">>,
     <<"s","o","f","t">>,
     <<"d","r","e","a","m","y">>,
     <<"d","a","r","k">>,
     <<" ","&"," ">>,
     <<"C","i","n","e","m","a","t","i","c"," ","&"," ","M","o","o","d","y","!","!">>,
     <<"a"," ","c","i","n","e","m","a","t","i","c"," ","a","n","d"," ","m","o","o","d","y"," ","p","o","r","t","r","a","i","t">>,
     <<"s","o","f","t"," ","d","r","a","m","a","t","i","c"," ","V","I","N","T","A","G","E","-","7">>}

\* the descriptions made of at most n phrases
RECURSIVE PromptsOf(_)
PromptsOf(n) ==
    IF n = 0 THEN {<<>>}
    ELSE LET shorter == PromptsOf(n - 1) IN
         shorter \cup {p \o w : p \in shorter, w \in Phrases}

\* uploaded file names
Filenames == {<<"a",".","j","p","g">>, <<"b","&","w",".","p","n","g">>}

\* descriptions sent to the endpoint
ReqDescriptions ==
    {<<>>,
     <<"d","r","e","a","m","y">>,
     <<"C","i","n","e","m","a","t","i","c"," ","&"," ","M","o","o","d","y","!","!">>}

\* uploaded bytes: a decodable image, or not
Contents == {"image", "junk"}

\* -------------------------------------------------------------------- state
VARIABLES
    prompt,        \* the text handed to the functions under SpecFn
    settings,      \* <<>> or <<result of match_prompt_to_preset(prompt)>>
    xmp_content,   \* <<>> or <<result of generate_xmp_content(prompt, settings)>>
    preset,        \* <<>> or <<result of generate_xmp_preset(prompt)>>
    slug,          \* <<>> or <<result of slugify(prompt)>>
    xmp_doc,       \* <<>> or <<[name, doc] made by create_xmp_file>>
    next_uuid,     \* number of the next uuid4() drawn
    pc,            \* position of the generate_preset handler
    req,           \* <<>> or <<the locals of the running/last generate_preset>>
    preset_data,   \* <<>> or <<the handler's preset_data>>
    uploads,       \* UPLOAD_DIR: file name -> content
    presets,       \* PRESET_DIR: file name -> document
    resp           \* <<>> or <<the last response of generate_preset>>

fnvars == <<prompt, settings, xmp_content, preset, slug, xmp_doc>>
srvvars == <<pc, req, preset_data, uploads, presets, resp>>
vars == <<prompt, settings, xmp_content, preset, slug, xmp_doc, next_uuid,
          pc, req, preset_data, uploads, presets, resp>>

EmptyDir == [name \in {} |-> <<>>]

\* open(path, "w") and write
WriteFile(dir, name, content) == (name :> content) @@ dir

\* Path.unlink
Unlink(dir, name) == [n \in (DOMAIN dir) \ {name} |-> dir[n]]

ServerInit ==
    /\ next_uuid = 1
    /\ pc = "idle"
    /\ req = <<>>
    /\ preset_data = <<>>
    /\ uploads = EmptyDir
    /\ presets = EmptyDir
    /\ resp = <<>>

NoResults ==
    /\ settings = <<>>
    /\ xmp_content = <<>>
    /\ preset = <<>>
    /\ slug = <<>>
    /\ xmp_doc = <<>>

\* ---------------------------------------- functions applied to one description
InitFn ==
    /\ prompt \in PromptsOf(MaxPhrases)
    /\ NoResults
    /\ ServerInit

\* create_preset_from_prompt
CreatePresetFromPrompt ==
    /\ settings = <<>>
    /\ \E s \in {match_prompt_to_preset(prompt)} :
       \E tie \in TieChoices(s) :
         /\ settings' = <<s>>
         /\ xmp_content' = <<generate_xmp_content(prompt, s, tie)>>
    /\ UNCHANGED <<prompt, preset, slug, xmp_doc, next_uuid, srvvars>>

\* the calls generate_preset makes on the description: generate_xmp_preset,
\* slugify and create_xmp_file (the document it builds)
PreparePreset ==
    /\ preset = <<>>
    /\ \E filename \in Filenames, p \in {generate_xmp_preset(prompt)} :
         \E xmp_filename \in {XmpFilename(filename, prompt)} :
         /\ preset' = <<p>>
         /\ slug' = <<slugify(prompt)>>
         /\ xmp_doc' = <<[name |-> xmp_filename,
                          doc |-> create_xmp_file(p, xmp_filename, UuidText(next_uuid))]>>
    /\ next_uuid' = next_uuid + 1
    /\ UNCHANGED <<prompt, settings, xmp_content, srvvars>>

NextFn ==
    \/ CreatePresetFromPrompt
    \/ PreparePreset

SpecFn == InitFn /\ [][NextFn]_vars


\* ------------------------------------------------------- the request handlers
\* generate_preset has no await: the event loop runs it from start to end
\* before any other handler, so other handlers start only between requests.
Between == pc \in {"idle", "responded"}

Init ==
    /\ prompt = <<>>
    /\ NoResults
    /\ ServerInit

\* preset_id = str(uuid.uuid4()); copy the upload to UPLOAD_DIR
SaveUpload ==
    /\ Between
    /\ next_uuid < 2 * MaxRequests
    /\ \E filename \in Filenames, content \in Contents,
          style_description \in ReqDescriptions :
         LET preset_id == UuidText(next_uuid) IN
         /\ req' = <<[preset_id |-> preset_id, filename |-> filename,
                      style_description |-> style_description,
                      xmp_filename |-> <<>>, error |-> ""]>>
         /\ uploads' = WriteFile(uploads, UploadName(preset_id, filename), content)
    /\ next_uuid' = next_uuid + 1
    /\ preset_data' = <<>>
    /\ resp' = <<>>
    /\ pc' = "saved"
    /\ UNCHANGED <<fnvars, presets>>

\* preset_data = generate_xmp_preset(...); the XMP file name
MatchDescription ==
    /\ pc = "saved"
    /\ preset_data' = <<generate_xmp_preset(req[1].style_description)>>
    /\ req' = <<[req[1] EXCEPT
                   !.xmp_filename = XmpFilename(req[1].filename, req[1].style_description)]>>
    /\ pc' = "matched"
    /\ UNCHANGED <<fnvars, next_uuid, uploads, presets, resp>>

\* xmp_path = create_xmp_file(preset_data, xmp_filename)
WritePreset ==
    /\ pc = "matched"
    /\ presets' = WriteFile(presets, req[1].xmp_filename,
                            create_xmp_file(preset_data[1], req[1].xmp_filename,
                                            UuidText(next_uuid)))
    /\ next_uuid' = next_uuid + 1
    /\ pc' = "xmp_written"
    /\ UNCHANGED <<fnvars, req, preset_data, uploads, resp>>

\* faulty variant: a failed render removes the request's upload before answering
RenderPreview_Cleanup ==
    /\ pc = "xmp_written"
    /\ \E outcome \in
            IF uploads[UploadName(req[1].preset_id, req[1].filename)] # "image"
            THEN {"UnidentifiedImageError"}
            ELSE apply_preset_to_image(preset_data[1]) :
         IF outcome = "ok"
         THEN /\ uploads' = WriteFile(uploads, PreviewName(req[1].preset_id), "jpeg")
              /\ pc' = "rendered"
              /\ req' = req
         ELSE /\ uploads' = Unlink(uploads, UploadName(req[1].preset_id, req[1].filename))
              /\ pc' = "failed"
              /\ req' = <<[req[1] EXCEPT !.error = outcome]>>
    /\ UNCHANGED <<fnvars, next_uuid, preset_data, presets, resp>>

\* with Image.open(file_path) as img: apply the preset, save the preview
RenderPreview ==
    /\ pc = "xmp_written"
    /\ \E outcome \in
            IF uploads[UploadName(req[1].preset_id, req[1].filename)] # "image"
            THEN {"UnidentifiedImageError"}
            ELSE apply_preset_to_image(preset_data[1]) :
         IF outcome = "ok"
         THEN /\ uploads' = WriteFile(uploads, PreviewName(req[1].preset_id), "jpeg")
              /\ pc' = "rendered"
              /\ req' = req
         ELSE /\ uploads' = uploads
              /\ pc' = "failed"
              /\ req' = <<[req[1] EXCEPT !.error = outcome]>>
    /\ UNCHANGED <<fnvars, next_uuid, preset_data, presets, resp>>

\* the return statement, or the except clause raising HTTPException(500)
Respond ==
    /\ pc \in {"rendered", "failed"}
    /\ resp' =
         IF pc = "rendered"
         THEN <<[status |-> 200, preset_id |-> req[1].preset_id,
                 style_description |-> req[1].style_description,
                 xmp_url |-> <<"/","p","r","e","s","e","t","s","/">> \o req[1].xmp_filename,
                 preview_url |-> <<"/","u","p","l","o","a","d","s","/">>
                                   \o PreviewName(req[1].preset_id),
                 detail |-> ""]>>
         ELSE <<[status |-> 500, preset_id |-> <<>>, style_description |-> <<>>,
                 xmp_url |-> <<>>, preview_url |-> <<>>, detail |-> req[1].error]>>
    /\ pc' = "responded"
    /\ UNCHANGED <<fnvars, next_uuid, req, preset_data, uploads, presets>>

\* DELETE /files/{filename} on an existing file (a missing one answers 404
\* and changes nothing)
delete_file ==
    /\ Between
    /\ \E filename \in DOMAIN uploads : uploads' = Unlink(uploads, filename)
    /\ pc' = "idle"
    /\ UNCHANGED <<fnvars, next_uuid, req, preset_data, presets, resp>>

\* GET /presets/{filename} and GET /uploads/{filename}: the status answered
get_preset(filename) == IF filename \in DOMAIN presets THEN 200 ELSE 404
get_upload(filename) == IF filename \in DOMAIN uploads THEN 200 ELSE 404

Next ==
    \/ SaveUpload
    \/ MatchDescription
    \/ WritePreset
    \/ RenderPreview
    \/ Respond
    \/ delete_file

Spec == Init /\ [][Next]_vars


\* =================================================================== claims
\* the PRESET_TEMPLATES keys occurring in the lower-cased text
MatchedStyles(text) ==
    UNION {{style \in DOMAIN StyleKey : Contains(low, StyleKey[style])} : low \in {lower(text)}}

\* the generate_xmp_preset keywords occurring in the lower-cased text
XmpMatched(text) ==
    UNION {{k \in DOMAIN XmpKeyword : Contains(low, XmpKeyword[k])} : low \in {lower(text)}}

T_vintage == <<"v","i","n","t","a","g","e">>
T_moody == <<"m","o","o","d","y">>
T_dark == <<"d","a","r","k">>
T_soft == <<"s","o","f","t">>
T_dreamy == <<"d","r","e","a","m","y">>
T_cinematic == <<"c","i","n","e","m","a","t","i","c">>
T_amp == <<" ","&"," ">>
T_title == <<"C","i","n","e","m","a","t","i","c"," ","&"," ","M","o","o","d","y","!","!">>
T_scenario == <<"a"," ","c","i","n","e","m","a","t","i","c"," ","a","n","d"," ","m","o","o","d","y"," ","p","o","r","t","r","a","i","t">>
T_three == <<"s","o","f","t"," ","d","r","a","m","a","t","i","c"," ","V","I","N","T","A","G","E","-","7">>

\* C2: a description containing exactly one keyword of a matcher gets exactly
\* that keyword's template: match_prompt_to_preset returns the template's
\* eleven values unaltered by the sum and the division by match_count = 1, and
\* generate_xmp_preset returns the template's values with every parameter the
\* template does not set left at 0.
C2_SingleKeywordUnchanged ==
    /\ settings # <<>> =>
         \A M \in {MatchedStyles(prompt)}, style \in DOMAIN StyleKey :
            M = {style} =>
               \A key \in BasicKeys :
                  settings[1][key] = PRESET_TEMPLATES[style][key] * UnitsPerTenth
    /\ preset # <<>> =>
         \A M \in {XmpMatched(prompt)}, k \in DOMAIN XmpKeyword :
            M = {k} =>
               \A key \in BasicKeys :
                  IF key \in DOMAIN XmpStyle[k].Basic
                  THEN preset[1].Basic[key] = XmpStyle[k].Basic[key]
                  ELSE preset[1].Basic[key].units = 0

\* both matchers have answered a description whose only keyword is "vintage"
C2_Witness ==
    /\ prompt = T_amp \o T_vintage
    /\ settings # <<>>
    /\ preset # <<>>
    /\ MatchedStyles(prompt) = {"vintage"}
    /\ XmpMatched(prompt) = {"vintage"}
    /\ settings[1].Exposure = 2 * UnitsPerTenth
    /\ preset[1].Basic.Saturation = PyInt(-15)

\* C3: a description containing none of a matcher's keywords (the empty string
\* included) gets the default parameter set: all eleven basic parameters 0,
\* and in generate_xmp_preset the identity tone curve and all split-toning
\* values 0; for every description the result has all eleven parameter keys.
C3_UnmatchedIsDefault ==
    /\ settings # <<>> =>
         /\ DOMAIN settings[1] = BasicKeys
         /\ MatchedStyles(prompt) = {} => \A key \in BasicKeys : settings[1][key] = 0
    /\ preset # <<>> =>
         /\ BasicKeys \subseteq DOMAIN preset[1].Basic
         /\ XmpMatched(prompt) = {} =>
              /\ \A key \in BasicKeys : preset[1].Basic[key].units = 0
              /\ preset[1].ToneCurve.Points = << <<0, 0>>, <<255, 255>> >>
              /\ \A f \in {"HighlightHue", "HighlightSaturation", "ShadowHue",
                           "ShadowSaturation", "Balance"} :
                    preset[1].SplitToning[f] = 0

\* both matchers have answered "dark", which neither recognizes
C3_Witness ==
    /\ prompt = T_dark
    /\ settings # <<>>
    /\ preset # <<>>
    /\ MatchedStyles(prompt) = {}
    /\ XmpMatched(prompt) = {}
    /\ settings[1].Contrast = 0

RECURSIVE SumOver(_, _)
SumOver(styles, key) ==
    IF styles = {} THEN 0
    ELSE LET style == CHOOSE x \in styles : TRUE IN
         PRESET_TEMPLATES[style][key] + SumOver(styles \ {style}, key)

\* C4: match_prompt_to_preset returns, for each of the eleven parameters, the
\* arithmetic mean over the set of templates whose key occurs in the
\* lower-cased description (each counted once), and 0 when none occurs;
\* "a cinematic and moody portrait" gives Exposure -0.2 and Contrast 0.35.
C4_AverageAllMatches ==
    settings # <<>> =>
       \A M \in {MatchedStyles(prompt)} :
       /\ \A key \in BasicKeys :
             IF M = {} THEN settings[1][key] = 0
             ELSE settings[1][key] * Cardinality(M) = SumOver(M, key) * UnitsPerTenth
       /\ prompt = T_scenario =>
             /\ 10 * settings[1].Exposure = -2 * Unit
             /\ 100 * settings[1].Contrast = 35 * Unit

\* the matcher has answered a description naming moody twice and cinematic once
C4_Witness ==
    /\ prompt = T_moody \o T_scenario
    /\ settings # <<>>
    /\ MatchedStyles(prompt) = {"moody", "cinematic"}
    /\ 10 * settings[1].Exposure = -2 * Unit


NoDoubleHyphen(text) == \A i \in 1..(Len(text) - 1) : ~(text[i] = "-" /\ text[i + 1] = "-")

\* C7: slugify(text) holds only characters of [a-z0-9-], has no two
\* consecutive hyphens, neither starts nor ends with a hyphen, and is a fixed
\* point of slugify; slugify("Cinematic & Moody!!") is "cinematic-moody".
C7_SlugifyShapeAndIdempotent ==
    slug # <<>> =>
       \A s \in {slug[1]} :
          /\ \A i \in 1..Len(s) : s[i] \in Range(LowerLetters) \cup Range(Digits) \cup {"-"}
          /\ NoDoubleHyphen(s)
          /\ Len(s) > 0 => (s[1] # "-" /\ s[Len(s)] # "-")
          /\ slugify(s) = s
          /\ prompt = T_title =>
                s = <<"c","i","n","e","m","a","t","i","c","-","m","o","o","d","y">>

\* slugify has answered a text that starts and ends with punctuation and has
\* upper-case letters and an inner run of punctuation
C7_Witness ==
    /\ prompt = T_amp \o T_title
    /\ slug = << <<"c","i","n","e","m","a","t","i","c","-","m","o","o","d","y">> >>

\* the priority order of the if/elif chain as the claim gives it
Priority == <<"cinematic", "vintage", "dramatic", "dreamy">>

\* the matching keyword that comes first in Priority
TopPriority(M) ==
    Priority[CHOOSE i \in 1..Len(Priority) :
                /\ Priority[i] \in M
                /\ \A j \in 1..(i - 1) : Priority[j] \notin M]

\* C9: generate_xmp_preset is first-match-wins in the order cinematic >
\* vintage > dramatic > dreamy: the Basic, ToneCurve and SplitToning values
\* returned are the defaults overwritten by the template of the
\* highest-priority keyword in the description and by nothing else, wherever
\* the keywords stand in the text.
C9_FirstMatchWins ==
    preset # <<>> =>
       \A M \in {XmpMatched(prompt)} :
          M # {} =>
             \A top \in {TopPriority(M)} :
                /\ \A key \in BasicKeys :
                      preset[1].Basic[key] =
                         IF key \in DOMAIN XmpStyle[top].Basic
                         THEN XmpStyle[top].Basic[key]
                         ELSE BasePreset.Basic[key]
                /\ preset[1].ToneCurve.Points = XmpStyle[top].Points
                /\ \A f \in DOMAIN BasePreset.SplitToning :
                      preset[1].SplitToning[f] =
                         IF f \in DOMAIN XmpStyle[top].SplitToning
                         THEN XmpStyle[top].SplitToning[f]
                         ELSE BasePreset.SplitToning[f]

\* the matcher has answered a text naming soft, dramatic and vintage and then
\* cinematic: the keyword written last wins
C9_Witness ==
    /\ prompt = T_three \o T_cinematic
    /\ preset # <<>>
    /\ XmpMatched(prompt) = {"cinematic", "vintage", "dramatic"}
    /\ preset[1].SplitToning.ShadowHue = 215


\* ---- well-formedness of a written document
\* the namespace declarations in scope at element i
RECURSIVE InScope(_, _)
InScope(doc, i) ==
    doc[i].xmlns \cup (IF doc[i].parent = 0 THEN {} ELSE InScope(doc, doc[i].parent))

PrefixesUsed(e) == {e.tag[1]} \cup {a[1] : a \in e.attrs}

EntityRefs == {<<"&","a","m","p",";">>, <<"&","l","t",";">>,
               <<"&","g","t",";">>, <<"&","q","u","o","t",";">>}

\* written character data: no '<', and every '&' starts an entity reference
MarkupFree(text) ==
    \A i \in 1..Len(text) :
       /\ text[i] # "<"
       /\ text[i] = "&" =>
             \E r \in EntityRefs :
                /\ i + Len(r) - 1 <= Len(text)
                /\ SubSeq(text, i, i + Len(r) - 1) = r

WellFormed(doc) ==
    /\ Len(doc) > 0
    /\ \A i \in 1..Len(doc) : doc[i].parent < i /\ (doc[i].parent = 0 <=> i = 1)
    /\ \A i \in 1..Len(doc) :
          /\ PrefixesUsed(doc[i]) \subseteq {d[1] : d \in InScope(doc, i)}
          /\ MarkupFree(doc[i].text)
          /\ \A a \in doc[i].attrs : MarkupFree(a[3]) /\ "\"" \notin Range(a[3])

\* the attribute names the external editor reads
CrsAttribute ==
    [Exposure |-> "Exposure2012", Contrast |-> "Contrast2012",
     Highlights |-> "Highlights2012", Shadows |-> "Shadows2012",
     Whites |-> "Whites2012", Blacks |-> "Blacks2012", Clarity |-> "Clarity2012",
     Vibrance |-> "Vibrance", Saturation |-> "Saturation",
     Temperature |-> "Temperature", Tint |-> "Tint"]

Descriptions(doc) == {i \in 1..Len(doc) : doc[i].tag = <<"rdf", "Description">>}

EncoderContract(doc) ==
    /\ WellFormed(doc)
    /\ {<<"x", NS_X>>, <<"rdf", NS_RDF>>, <<"crs", NS_CRS>>}
          \subseteq UNION {doc[i].xmlns : i \in 1..Len(doc)}
    /\ Cardinality(Descriptions(doc)) = 1
    /\ \A i \in Descriptions(doc), key \in BasicKeys :
          \E a \in doc[i].attrs : a[1] = "crs" /\ a[2] = CrsAttribute[key]

\* C5: every document either encoder writes is well-formed XML with every
\* prefix declared, declares the x, rdf and crs namespaces, and has a single
\* rdf:Description carrying the eleven parameters as the attributes
\* crs:Exposure2012 ... crs:Tint.
C5_EncodersMeetSchema ==
    /\ xmp_content # <<>> => EncoderContract(xmp_content[1])
    /\ xmp_doc # <<>> => EncoderContract(xmp_doc[1].doc)

\* the same contract for create_xmp_file alone
C5_CreateXmpFileMeetsSchema == xmp_doc # <<>> => EncoderContract(xmp_doc[1].doc)

\* the text generate_xmp_content embeds for a parameter
ContentText(doc, key) ==
    doc[CHOOSE i \in 1..Len(doc) : doc[i].tag = <<"crs", key>>].text

\* the text create_xmp_file embeds for a parameter
AttributeText(doc, key) ==
    LET d == doc[CHOOSE i \in 1..Len(doc) : doc[i].tag = <<"rdf", "Description">>]
    IN (CHOOSE a \in d.attrs : a[1] = "crs" /\ a[2] = CrsAttribute[key])[3]

\* C6: the decimal text an encoder embeds for a parameter, parsed back as a
\* number, equals the parameter: for generate_xmp_content over every result of
\* match_prompt_to_preset, and for create_xmp_file.
C6_NumericRoundTrip ==
    /\ xmp_content # <<>> =>
          \A key \in BasicKeys :
             ParseFloat(ContentText(xmp_content[1], key)) = settings[1][key]
    /\ xmp_doc # <<>> =>
          \A key \in BasicKeys :
             ParseFloat(AttributeText(xmp_doc[1].doc, key)) = preset[1].Basic[key].units

\* the round trip of create_xmp_file alone
C6_StrRoundTrip ==
    xmp_doc # <<>> =>
       \A key \in BasicKeys :
          ParseFloat(AttributeText(xmp_doc[1].doc, key)) = preset[1].Basic[key].units

\* str.replace(old, new)
RECURSIVE Replace(_, _, _)
Replace(text, old, new) ==
    IF Len(text) < Len(old) THEN text
    ELSE IF SubSeq(text, 1, Len(old)) = old
    THEN new \o Replace(SubSeq(text, Len(old) + 1, Len(text)), old, new)
    ELSE <<text[1]>> \o Replace(Tail(text), old, new)

Synonyms == {<<T_moody, T_dark>>, <<T_dark, T_moody>>,
             <<T_soft, T_dreamy>>, <<T_dreamy, T_soft>>}

\* C8: writing "dark" for "moody" or "dreamy" for "soft" (or the reverse) in a
\* description changes the result of neither matcher.
C8_SynonymsSameTemplate ==
    \A pair \in Synonyms :
       \A other \in {Replace(lower(prompt), pair[1], pair[2])} :
          /\ settings # <<>> => match_prompt_to_preset(other) = settings[1]
          /\ preset # <<>> => generate_xmp_preset(other) = preset[1]


\* ---- the request handler
\* the files of the running or last request
ReqUpload == UploadName(req[1].preset_id, req[1].filename)
ReqPreview == PreviewName(req[1].preset_id)
ReqPresetWritten ==
    /\ req[1].xmp_filename # <<>>
    /\ req[1].xmp_filename \in DOMAIN presets

\* C1: every generate_preset request with a decodable image completes with
\* status 200, and then the preset file presets/{xmp_filename} and the preview
\* file uploads/preview_{preset_id}.jpg exist and are the files the response's
\* xmp_url and preview_url name; descriptions with a recognized keyword
\* included.
C1_DecodableRequestSucceeds ==
    (pc = "responded" /\ uploads[ReqUpload] = "image") =>
       /\ resp[1].status = 200
       /\ get_preset(req[1].xmp_filename) = 200
       /\ get_upload(ReqPreview) = 200
       /\ resp[1].xmp_url = <<"/","p","r","e","s","e","t","s","/">> \o req[1].xmp_filename
       /\ resp[1].preview_url = <<"/","u","p","l","o","a","d","s","/">> \o ReqPreview

\* what the handler has left on disk at each of its positions
C10_Leftovers ==
    /\ pc # "idle" => (req # <<>> /\ ReqUpload \in DOMAIN uploads)
    /\ pc = "saved" =>
          /\ preset_data = <<>> /\ req[1].xmp_filename = <<>>
          /\ ReqPreview \notin DOMAIN uploads /\ resp = <<>>
    /\ pc = "matched" =>
          /\ preset_data # <<>> /\ req[1].xmp_filename # <<>>
          /\ ReqPreview \notin DOMAIN uploads /\ resp = <<>>
    /\ pc = "xmp_written" =>
          ReqPresetWritten /\ ReqPreview \notin DOMAIN uploads /\ resp = <<>>
    /\ pc = "rendered" =>
          ReqPresetWritten /\ ReqPreview \in DOMAIN uploads /\ resp = <<>>
    /\ pc = "failed" =>
          ReqPresetWritten /\ ReqPreview \notin DOMAIN uploads /\ resp = <<>>
    /\ pc = "responded" =>
          /\ resp # <<>>
          /\ ReqPresetWritten
          /\ resp[1].status \in {200, 500}
          /\ resp[1].status = 500 <=> ReqPreview \notin DOMAIN uploads

\* the order of the handler's positions
StepOrder ==
    {<<"idle", "saved">>, <<"responded", "saved">>, <<"saved", "matched">>,
     <<"matched", "xmp_written">>, <<"xmp_written", "rendered">>,
     <<"xmp_written", "failed">>, <<"rendered", "responded">>,
     <<"failed", "responded">>, <<"responded", "idle">>, <<"idle", "idle">>}

\* a step that adds a preview file is the render step of a request whose
\* preset file is written, and no step removes a preset file
C10_Steps ==
    /\ <<pc, pc'>> \in StepOrder
    /\ (DOMAIN presets) \subseteq (DOMAIN presets')
    /\ \A name \in (DOMAIN uploads') \ (DOMAIN uploads) :
          \/ pc' = "saved" /\ name = UploadName(req'[1].preset_id, req'[1].filename)
          \/ /\ pc = "xmp_written" /\ pc' = "rendered"
             /\ name = ReqPreview
             /\ ReqPresetWritten
    /\ pc' \in {"matched", "xmp_written", "rendered", "failed", "responded"} =>
          (DOMAIN uploads) \subseteq (DOMAIN uploads')

\* C10: a request runs save upload -> match -> write preset -> render and
\* save preview -> respond; no step removes what an earlier step wrote, so a
\* request failing in preview rendering answers 500 with its upload file and
\* its preset file on disk and no preview file, and a preview file is only
\* ever written for a request whose preset file is already written.
C10_OrderedStepsKeepFiles == []C10_Leftovers /\ [][C10_Steps]_vars

\* a request for "dreamy" with a decodable image has answered 500 after
\* apply_preset_to_image raised: upload and preset are on disk, the preview is not
C10_Witness ==
    /\ pc = "responded"
    /\ resp[1].status = 500
    /\ resp[1].detail \in {"NameError", "ValueError"}
    /\ req[1].style_description = T_dreamy
    /\ uploads[ReqUpload] = "image"
    /\ ReqPresetWritten
    /\ ReqPreview \notin DOMAIN uploads

====
